---- MODULE Spec2Model ----
(***************************************************************************)
(* A model of utils/data_manager.py: the DataManager that loads and        *)
(* validates student CSV sources, encodes the KPI features against         *)
(* FinalGrade and derives the ImprovabilityScore.                          *)
(*                                                                         *)
(* A DataFrame is a record [none, columns, rows, floats]: columns is the   *)
(* list of column names, rows the list of rows, a row a function from      *)
(* column name to cell.  Cells of the text (object dtype) columns are      *)
(* strings, all other cells are integers.  A missing cell, as read_csv     *)
(* produces for an empty field, is NaNText in a text column and NaNNum in  *)
(* a numeric one; read_csv gives a numeric column with a missing cell the  *)
(* dtype float64, and floats names the columns of that dtype.              *)
(*                                                                         *)
(* Rows are matched by position.  The correlation is exact: its sign is    *)
(* the sign of the integer covariance, and it is NaN when a series has no  *)
(* variance.  The fitted PCA component is known by the signs of its        *)
(* loadings only, every combination of signs being possible.               *)
(***************************************************************************)
EXTENDS Integers, Sequences, FiniteSets, TLC

\* ---------------------------------------------------------------- bounds

\* Largest number of CSV files found in the data directory.
MaxFiles == 3

\* Most method calls followed on one DataManager.
MaxCalls == 4

\* Most method calls followed on a DataManager over MaxFiles files.
MaxCallsLargest == 1

\* Longest feature list handed to reset_kpi_columns.
MaxKpiLen == 2

\* ------------------------------------------------------------ DataFrames

NaNText == "NaN"

NaNNum == -1

None == [none |-> TRUE, columns |-> <<>>, rows |-> <<>>, floats |-> {}]

DataFrame(cols, rws, fl) ==
    [none |-> FALSE, columns |-> cols, rows |-> rws, floats |-> fl]

Range(s) == {s[i] : i \in DOMAIN s}

\* self.columns, in declared order.
columns ==
    << "StudentID", "FirstName", "FamilyName", "sex", "age", "address",
       "famsize", "Pstatus", "Medu", "Fedu", "Mjob", "Fjob", "reason",
       "guardian", "traveltime", "studytime", "failures", "schoolsup",
       "famsup", "paid", "activities", "nursery", "higher", "internet",
       "romantic", "famrel", "freetime", "goout", "Dalc", "Walc", "health",
       "absences", "FinalGrade" >>

\* The columns pandas reads with dtype object (strings).
ObjectColumns ==
    { "FirstName", "FamilyName", "sex", "address", "famsize", "Pstatus",
      "Mjob", "Fjob", "reason", "guardian", "schoolsup", "famsup", "paid",
      "activities", "nursery", "higher", "internet", "romantic" }

isna(c, v) == IF c \in ObjectColumns THEN v = NaNText ELSE v = NaNNum

\* DataFrame.dropna(): keep the rows without any missing cell.
dropna(df) ==
    DataFrame(df.columns,
              SelectSeq(df.rows, LAMBDA r : \A c \in DOMAIN r : ~isna(c, r[c])),
              df.floats)

\* Series.is_unique over column c.
is_unique(rws, c) ==
    \A i, j \in DOMAIN rws : rws[i][c] = rws[j][c] => i = j

\* df[cols]: every row restricted to the listed columns.
Restrict(df, cols) ==
    LET keep == Range(cols) IN
    DataFrame(cols, [i \in DOMAIN df.rows |-> [c \in keep |-> df.rows[i][c]]],
              df.floats \cap keep)

YesNo == {"yes", "no"}

Jobs == {"teacher", "health", "services", "at_home", "other"}

\* The domain assertions of validate_data, lines 86-115, on one row.
RowInDomain(r) ==
    /\ r["sex"] \in {"M", "F"}
    /\ r["age"] >= 15 /\ r["age"] <= 22
    /\ r["address"] \in {"U", "R"}
    /\ r["famsize"] \in {"LE3", "GT3"}
    /\ r["Pstatus"] \in {"T", "A"}
    /\ r["Medu"] \in 0..4
    /\ r["Fedu"] \in 0..4
    /\ r["Mjob"] \in Jobs
    /\ r["Fjob"] \in Jobs
    /\ r["reason"] \in {"home", "reputation", "course", "other"}
    /\ r["guardian"] \in {"mother", "father", "other"}
    /\ r["traveltime"] \in 1..4
    /\ r["studytime"] \in 1..4
    /\ r["failures"] \in 0..4
    /\ r["schoolsup"] \in YesNo
    /\ r["famsup"] \in YesNo
    /\ r["paid"] \in YesNo
    /\ r["activities"] \in YesNo
    /\ r["nursery"] \in YesNo
    /\ r["higher"] \in YesNo
    /\ r["internet"] \in YesNo
    /\ r["romantic"] \in YesNo
    /\ r["famrel"] \in 1..5
    /\ r["freetime"] \in 1..5
    /\ r["goout"] \in 1..5
    /\ r["Dalc"] \in 1..5
    /\ r["Walc"] \in 1..5
    /\ r["health"] \in 1..5
    /\ r["absences"] >= 0 /\ r["absences"] <= 93
    /\ r["FinalGrade"] >= 0 /\ r["FinalGrade"] <= 20

\* validate_data as it would be if it dropped the rows outside their
\* domain instead of failing on them.
validate_data_repairing(df) ==
    IF df.rows = <<>> \/ df.columns = <<>>
    THEN [exc |-> "AssertionError", df |-> None]
    ELSE IF ~(Range(df.columns) \subseteq Range(columns))
    THEN [exc |-> "AssertionError", df |-> None]
    ELSE IF ~(Range(columns) \subseteq Range(df.columns))
    THEN [exc |-> "KeyError", df |-> None]
    ELSE LET sel  == Restrict(df, columns)
             good == SelectSeq(sel.rows, RowInDomain)
         IN  IF is_unique(sel.rows, "StudentID") /\ good # <<>>
             THEN [exc |-> "None", df |-> DataFrame(columns, good, sel.floats)]
             ELSE [exc |-> "AssertionError", df |-> None]

\* validate_data(df): the exception it raises ("None" when it returns) and
\* the DataFrame it returns.  Line 83 asserts that every column of df is an
\* expected one; an expected column that df lacks is first noticed by the
\* selection df[self.columns] of line 84, which raises KeyError.
validate_data(df) ==
    IF df.rows = <<>> \/ df.columns = <<>>
    THEN [exc |-> "AssertionError", df |-> None]
    ELSE IF ~(Range(df.columns) \subseteq Range(columns))
    THEN [exc |-> "AssertionError", df |-> None]
    ELSE IF ~(Range(columns) \subseteq Range(df.columns))
    THEN [exc |-> "KeyError", df |-> None]
    ELSE LET sel == Restrict(df, columns) IN
         IF /\ is_unique(sel.rows, "StudentID")
            /\ \A i \in DOMAIN sel.rows : RowInDomain(sel.rows[i])
         THEN [exc |-> "None", df |-> sel]
         ELSE [exc |-> "AssertionError", df |-> None]

\* DataFrame.drop_duplicates(): keep the first of every group of rows that
\* agree on all columns.
drop_duplicates(rws) ==
    LET idx  == [i \in DOMAIN rws |-> i]
        kept == SelectSeq(idx, LAMBDA i : \A j \in 1..(i-1) : rws[j] # rws[i])
    IN  [k \in DOMAIN kept |-> rws[kept[k]]]

RECURSIVE ConcatRows(_)
ConcatRows(dfs) ==
    IF dfs = <<>> THEN <<>> ELSE dfs[1].rows \o ConcatRows(Tail(dfs))

\* pd.concat(dfs) of frames over self.columns: the rows of the frames, one
\* frame after the other; a column is float64 if it is in one of them.
concat(dfs) ==
    DataFrame(columns, ConcatRows(dfs), UNION {dfs[i].floats : i \in DOMAIN dfs})

\* ---------------------------------------------------------- CSV contents

\* One complete row; the columns that no scenario varies hold a value of
\* their domain.
Row(id, first, age, sex, absences, dalc, walc, studytime, grade) ==
    [ StudentID |-> id, FirstName |-> first, FamilyName |-> "Doe", sex |-> sex,
      age |-> age, address |-> "U", famsize |-> "GT3", Pstatus |-> "T",
      Medu |-> 2, Fedu |-> 2, Mjob |-> "other", Fjob |-> "teacher",
      reason |-> "course", guardian |-> "mother", traveltime |-> 1,
      studytime |-> studytime, failures |-> 0, schoolsup |-> "no",
      famsup |-> "yes", paid |-> "no", activities |-> "yes", nursery |-> "yes",
      higher |-> "yes", internet |-> "yes", romantic |-> "no", famrel |-> 4,
      freetime |-> 3, goout |-> 3, Dalc |-> dalc, Walc |-> walc, health |-> 5,
      absences |-> absences, FinalGrade |-> grade ]

Ann == Row(1, "Ann", 16, "F", 0, 2, 1, 2, 10)

Bob == Row(2, "Bob", 17, "M", 1, 1, 2, 2, 5)

Cid == Row(3, "Cid", 16, "F", 2, 2, 1, 3, 10)

Dan == Row(4, "Dan", 18, "M", 4, 1, 1, 1, 12)

\* The identifier of Bob under another name.
Eve == Row(2, "Eve", 17, "M", 1, 1, 2, 2, 5)

Fay == Row(5, "Fay", 15, "F", 3, 3, 2, 4, 8)

\* age outside [15, 22].
Gus == Row(6, "Gus", 23, "M", 2, 2, 2, 2, 9)

\* age outside [15, 22] and the first name missing.
Hal == Row(7, NaNText, 23, "M", 5, 1, 3, 1, 7)

\* The absences cell missing.
Ivy == Row(8, "Ivy", 19, "F", NaNNum, 2, 2, 2, 11)

Without(r, c) == [k \in (DOMAIN r) \ {c} |-> r[k]]

WithoutColumn(cols, c) == SelectSeq(cols, LAMBDA k : k # c)

\* The tables read_csv can return for a file of the data directory.
\* read_csv: the table of the given columns and rows; a numeric column
\* with a missing cell is read as float64.
read_csv(cols, rws) ==
    DataFrame(cols, rws,
              {c \in Range(cols) \ ObjectColumns :
                  \E i \in DOMAIN rws : rws[i][c] = NaNNum})

\* The tables read_csv can return for a file of the data directory.
SourcePool ==
    << read_csv(columns, <<Ann, Bob, Cid>>),
       read_csv(columns, <<Ann, Dan>>),
       read_csv(columns, <<Eve>>),
       read_csv(columns, <<Fay, Gus>>),
       read_csv(columns, <<Fay, Cid, Hal, Ivy>>),
       read_csv(columns, <<Bob, Eve>>),
       read_csv(columns, <<>>),
       read_csv(WithoutColumn(columns, "age"), <<Without(Dan, "age")>>),
       read_csv(<<"Unnamed: 0">> \o columns,
                <<Dan @@ [c \in {"Unnamed: 0"} |-> 0]>>) >>

\* read_csv(filename).dropna() followed by validate_data, for every table
\* of the pool.
Validated == [k \in DOMAIN SourcePool |-> validate_data(dropna(SourcePool[k]))]

RECURSIVE ValidateAll(_, _, _)
\* The loop of load_data, lines 128-138, from file i on, where file i holds
\* table choice[i] of the pool: an AssertionError of validate_data skips the
\* file, any other exception leaves the loop and load_data.
ValidateAll(choice, i, dfs) ==
    IF i > Len(choice)
    THEN [exc |-> "None", dfs |-> dfs]
    ELSE LET v == Validated[choice[i]] IN
         IF v.exc = "AssertionError" THEN ValidateAll(choice, i + 1, dfs)
         ELSE IF v.exc # "None" THEN [exc |-> v.exc, dfs |-> dfs]
         ELSE ValidateAll(choice, i + 1, Append(dfs, v.df))

\* ------------------------------------------------------------ KPI frames

\* self.kpi_data: vals holds the columns that were assigned; a column of
\* `columns` without an entry in vals holds NaN in every row.
KpiFrame(cols, vals) == [none |-> FALSE, columns |-> cols, vals |-> vals]

KpiNone == [none |-> TRUE, columns |-> <<>>, vals |-> <<>>]

\* The number of rows of a KPI frame: none until a column is assigned.
NRows(kd) ==
    IF DOMAIN kd.vals = {} THEN 0
    ELSE Len(kd.vals[CHOOSE c \in DOMAIN kd.vals : TRUE])

\* kd[c] = v
SetColumn(kd, c, v) ==
    KpiFrame(IF c \in Range(kd.columns) THEN kd.columns ELSE Append(kd.columns, c),
             [k \in (DOMAIN kd.vals) \cup {c} |-> IF k = c THEN v ELSE kd.vals[k]])

\* df[c], as the list of its cells.
Column(df, c) == [i \in DOMAIN df.rows |-> df.rows[i][c]]

\* The text values of the sources in the order Python sorts them.
Sorted ==
    << "A", "Ann", "Bob", "Cid", "Dan", "Doe", "Eve", "F", "Fay", "GT3", "Gus",
       "Ivy", "LE3", "M", "NaN", "R", "T", "U", "at_home", "course", "father",
       "health", "home", "mother", "no", "other", "reputation", "services",
       "teacher", "yes" >>

Rank(v) == CHOOSE i \in DOMAIN Sorted : Sorted[i] = v

\* LabelEncoder().fit_transform on values whose sort keys are ks: the
\* position of each value among the sorted distinct values, from 0.
LabelEncoder(ks) ==
    LET present == Range(ks) IN
    [i \in DOMAIN ks |-> Cardinality({k \in present : k < ks[i]})]

RECURSIVE Sum(_)
Sum(xs) == IF xs = <<>> THEN 0 ELSE Head(xs) + Sum(Tail(xs))

Product(xs, ys) == [i \in DOMAIN xs |-> xs[i] * ys[i]]

\* n^2 times the covariance of xs and ys.
Cov(xs, ys) == Len(xs) * Sum(Product(xs, ys)) - Sum(xs) * Sum(ys)

\* Series.corr, the Pearson coefficient: undefined (NaN) when either series
\* has no variance, otherwise of the sign of the covariance, kept in num.
corr(xs, ys) ==
    [nan |-> Cov(xs, xs) = 0 \/ Cov(ys, ys) = 0, num |-> Cov(xs, ys)]

\* NaN compares False with everything.
Positive(r) == ~r.nan /\ r.num > 0

IsZero(r) == ~r.nan /\ r.num = 0

Negate(xs) == [i \in DOMAIN xs |-> -xs[i]]

\* list.remove(c): without the first occurrence of c.
Remove(l, c) ==
    LET at == CHOOSE i \in DOMAIN l : l[i] = c /\ \A j \in 1..(i-1) : l[j] # c
    IN  [k \in 1..(Len(l) - 1) |-> IF k < at THEN l[k] ELSE l[k + 1]]

\* self.data[c].dtype == 'int' (int64, where 'int' names it)
IsInt(d, c) == c \notin ObjectColumns /\ c \notin d.floats

\* The column process_kpi_data stores for feature c before it looks at the
\* correlation, lines 157-161.
Encode(d, c) ==
    IF IsInt(d, c) THEN Column(d, c)
    ELSE IF c \in ObjectColumns
    THEN LabelEncoder([i \in DOMAIN d.rows |-> Rank(d.rows[i][c])])
    ELSE LabelEncoder(Column(d, c))

\* kpi_data.drop(columns=[c]) on line 166: the frame it returns is not
\* kept, self.kpi_data stays as it is.
DropColumn(kd, c) == kd

RECURSIVE KpiLoop(_, _, _, _)
\* The loop of process_kpi_data, lines 156-167, about to read position i of
\* the list it iterates.  The list is self.kpi_columns itself: after a
\* remove the iterator's next position is i + 1 of the shortened list.
KpiLoop(d, cols, kd, i) ==
    IF i > Len(cols)
    THEN [exc |-> "None", kpi_columns |-> cols, kpi_data |-> kd]
    ELSE IF d.none
    THEN [exc |-> "TypeError", kpi_columns |-> cols, kpi_data |-> kd]
    ELSE IF cols[i] \notin Range(d.columns)
    THEN [exc |-> "KeyError", kpi_columns |-> cols, kpi_data |-> kd]
    ELSE LET c   == cols[i]
             enc == Encode(d, c)
             r   == corr(Column(d, "FinalGrade"), enc)
         IN  IF Positive(r)
             THEN KpiLoop(d, cols, SetColumn(kd, c, Negate(enc)), i + 1)
             ELSE IF IsZero(r)
             THEN KpiLoop(d, Remove(cols, c),
                          DropColumn(SetColumn(kd, c, enc), c), i + 1)
             ELSE KpiLoop(d, cols, SetColumn(kd, c, enc), i + 1)

RECURSIVE GCD(_, _)
GCD(a, b) == IF b = 0 THEN a ELSE GCD(b, a % b)

RECURSIVE GCDAll(_)
GCDAll(xs) == IF xs = <<>> THEN 0 ELSE GCD(GCDAll(Tail(xs)), Head(xs))

Abs(x) == IF x < 0 THEN -x ELSE x

\* StandardScaler on one column.  (x - mean) / std is kept up to a positive
\* factor, as the shortest integer vector of its direction; a column
\* without variance becomes all zero, as sklearn scales it by 1.
Standardize(xs) ==
    LET n    == Len(xs)
        s    == Sum(xs)
        cent == [i \in DOMAIN xs |-> n * xs[i] - s]
        g    == GCDAll([i \in DOMAIN xs |-> Abs(cent[i])])
    IN  IF g = 0 THEN cent ELSE [i \in DOMAIN xs |-> cent[i] \div g]

RECURSIVE AssignScaled(_, _, _, _)
\* kpi_data[kpi_columns] = Z, line 180: column j of Z, the standardized
\* column j of the frame `from`, is stored under the name kpi_columns[j].
AssignScaled(kd, from, cols, j) ==
    IF j > Len(cols) THEN kd
    ELSE LET src == from.columns[j]
             nxt == IF src \in DOMAIN from.vals
                    THEN SetColumn(kd, cols[j], Standardize(from.vals[src]))
                    ELSE KpiFrame(IF cols[j] \in Range(kd.columns) THEN kd.columns
                                  ELSE Append(kd.columns, cols[j]),
                                  [k \in (DOMAIN kd.vals) \ {cols[j]} |-> kd.vals[k]])
         IN  AssignScaled(nxt, from, cols, j + 1)

Min(S) == CHOOSE x \in S : \A y \in S : x <= y

\* pca.transform(kpi_data)[:, 0]: row i projected on the first component,
\* whose loadings w are known here by their signs only.
Project(kd, w) ==
    [i \in 1..NRows(kd) |->
        Sum([j \in DOMAIN kd.columns |-> w[kd.columns[j]] * kd.vals[kd.columns[j]][i]])]

\* Line 184 as it would be if it subtracted the mean of the standardized
\* projection, which is 0.
Shift_by_mean(raw) == raw

\* Line 184: the projection less its minimum.
Shift(raw) == [i \in DOMAIN raw |-> raw[i] - Min(Range(raw))]

\* self.data['ImprovabilityScore'] = score
WithScore(d, score) ==
    DataFrame(IF "ImprovabilityScore" \in Range(d.columns) THEN d.columns
              ELSE Append(d.columns, "ImprovabilityScore"),
              [i \in DOMAIN d.rows |->
                  [k \in (DOMAIN d.rows[i]) \cup {"ImprovabilityScore"} |->
                      IF k = "ImprovabilityScore" THEN score[i] ELSE d.rows[i][k]]],
              d.floats \cup {"ImprovabilityScore"})

\* ------------------------------------------------------------------ state

\* The attributes the dashboard offers as improvability features here.
KpiChoices == {"absences", "Dalc", "sex"}

RECURSIVE Lists(_)
\* The lists of at most n different features.
Lists(n) ==
    IF n = 0 THEN {<<>>}
    ELSE LET shorter == Lists(n - 1) IN
         shorter \cup {Append(l, c) : l \in shorter, c \in KpiChoices}

KpiLists == {l \in Lists(MaxKpiLen) : \A i, j \in DOMAIN l : l[i] = l[j] => i = j}

\* The calls followed on a manager over n files.
CallBudget(n) == IF n < MaxFiles THEN MaxCalls ELSE MaxCallsLargest

VARIABLES
    files,        \* self.files: the CSV paths found at construction
    kpi_columns,  \* self.kpi_columns
    data,         \* self.data
    kpi_data,     \* self.kpi_data
    called,       \* the method that returned last ("__init__" at first)
    raised,       \* the exception that call left with, "None" if it returned
    read,         \* the table of the pool read_csv returned, per file, in that call
    started,      \* self.kpi_columns as the last process_kpi_data found it
    calls         \* the number of method calls made

vars == <<files, kpi_columns, data, kpi_data, called, raised, read, started, calls>>

\* __init__, lines 43-55: the directory holds any number of CSV files (the
\* fallback DATA_DIR may hold none).
Init ==
    /\ files \in {[i \in 1..n |-> i] : n \in 0..MaxFiles}
    /\ kpi_columns = <<"absences", "Dalc", "Walc", "studytime">>
    /\ data = None
    /\ kpi_data = KpiNone
    /\ called = "__init__"
    /\ raised = "None"
    /\ read = <<>>
    /\ started = <<>>
    /\ calls = 0

\* LoadOutcome as it would be without the assertion of line 141.
LoadOutcome_unchecked(choice) ==
    LET loop   == ValidateAll(choice, 1, <<>>)
        all    == concat(loop.dfs)
        merged == DataFrame(all.columns, drop_duplicates(all.rows), all.floats)
    IN  IF loop.exc # "None"
        THEN [exc |-> loop.exc, assigned |-> FALSE, data |-> None]
        ELSE IF ~(Len(loop.dfs) > 0)
        THEN [exc |-> "No valid data found", assigned |-> FALSE, data |-> None]
        ELSE [exc |-> "None", assigned |-> TRUE, data |-> merged]

\* What load_data does when file i holds table choice[i], lines 127-142:
\* the exception it leaves with, and the frame it assigns to self.data if
\* it gets to line 140, which is before the uniqueness assertion of 141.
LoadOutcome(choice) ==
    LET loop   == ValidateAll(choice, 1, <<>>)
        all    == concat(loop.dfs)
        merged == DataFrame(all.columns, drop_duplicates(all.rows), all.floats)
    IN  IF loop.exc # "None"
        THEN [exc |-> loop.exc, assigned |-> FALSE, data |-> None]
        ELSE IF ~(Len(loop.dfs) > 0)
        THEN [exc |-> "No valid data found", assigned |-> FALSE, data |-> None]
        ELSE IF ~is_unique(merged.rows, "StudentID")
        THEN [exc |-> "StudentID must be unique.", assigned |-> TRUE, data |-> merged]
        ELSE [exc |-> "None", assigned |-> TRUE, data |-> merged]

\* The ways to fill n files from the pool.
Choices(n) == [1..n -> DOMAIN SourcePool]

\* LoadOutcome, for every way to fill the files.
Loaded == [choice \in UNION {Choices(n) : n \in 0..MaxFiles} |-> LoadOutcome(choice)]

load_data ==
    /\ calls < CallBudget(Len(files))
    /\ \E choice \in Choices(Len(files)) :
        /\ read' = choice
        /\ raised' = Loaded[choice].exc
        /\ data' = IF Loaded[choice].assigned THEN Loaded[choice].data ELSE data
    /\ called' = "load_data"
    /\ calls' = calls + 1
    /\ UNCHANGED <<files, kpi_columns, kpi_data, started>>

\* process_kpi_data, lines 155-167.  An exception inside the loop leaves
\* the attributes as the loop had them.
process_kpi_data ==
    /\ calls < CallBudget(Len(files))
    /\ LET out == KpiLoop(data, kpi_columns, KpiFrame(kpi_columns, <<>>), 1)
       IN  /\ kpi_columns' = out.kpi_columns
           /\ kpi_data' = out.kpi_data
           /\ raised' = out.exc
    /\ started' = kpi_columns
    /\ called' = "process_kpi_data"
    /\ read' = <<>>
    /\ calls' = calls + 1
    /\ UNCHANGED <<files, data>>

\* generate_kpi, lines 179-184, with the signs w of the component's
\* loadings: the exception it leaves with and the attributes it leaves.
GenerateOutcome(d, kd, cols, w) ==
    IF kd.none \/ NRows(kd) = 0
    THEN [exc |-> "ValueError", data |-> d, kpi_data |-> kd]
    ELSE IF Len(cols) # Len(kd.columns)
    THEN [exc |-> "ValueError", data |-> d, kpi_data |-> kd]
    ELSE LET scaled == AssignScaled(kd, kd, cols, 1) IN
         IF Range(scaled.columns) # DOMAIN scaled.vals
         THEN [exc |-> "ValueError", data |-> d, kpi_data |-> scaled]
         ELSE IF d.none
         THEN [exc |-> "TypeError", data |-> d, kpi_data |-> scaled]
         ELSE IF Len(d.rows) # NRows(scaled)
         THEN [exc |-> "ValueError", data |-> d, kpi_data |-> scaled]
         ELSE [exc |-> "None", kpi_data |-> scaled,
               data |-> WithScore(d, Shift(Project(scaled, w)))]

generate_kpi ==
    /\ calls < CallBudget(Len(files))
    /\ \E w \in [Range(kpi_data.columns) \cup Range(kpi_columns) -> {-1, 1}] :
        LET out == GenerateOutcome(data, kpi_data, kpi_columns, w)
        IN  /\ data' = out.data
            /\ kpi_data' = out.kpi_data
            /\ raised' = out.exc
    /\ called' = "generate_kpi"
    /\ read' = <<>>
    /\ calls' = calls + 1
    /\ UNCHANGED <<files, kpi_columns, started>>

\* reset_kpi_columns, lines 191-192.
reset_kpi_columns ==
    /\ calls < CallBudget(Len(files))
    /\ \E new_kpi_columns \in KpiLists :
        kpi_columns' = IF Len(new_kpi_columns) > 0 THEN new_kpi_columns
                       ELSE kpi_columns
    /\ called' = "reset_kpi_columns"
    /\ raised' = "None"
    /\ read' = <<>>
    /\ calls' = calls + 1
    /\ UNCHANGED <<files, data, kpi_data, started>>

Next ==
    \/ load_data
    \/ process_kpi_data
    \/ generate_kpi
    \/ reset_kpi_columns

Spec == Init /\ [][Next]_vars

\* ------------------------------------------------- sources, as specified

\* Table k of the pool after the missing-value filter.
Filtered == [k \in DOMAIN SourcePool |-> dropna(SourcePool[k])]

\* The source lacks an expected column.
LacksColumn == [k \in DOMAIN SourcePool |->
    ~(Range(columns) \subseteq Range(SourcePool[k].columns))]

\* The source has every expected column and, after the filter, a row with
\* an attribute outside its domain.
OutOfDomain == [k \in DOMAIN SourcePool |->
    /\ ~LacksColumn[k]
    /\ \E i \in DOMAIN Filtered[k].rows : ~RowInDomain(Filtered[k].rows[i])]

\* The source meets every constraint of the schema.
WellFormed == [k \in DOMAIN SourcePool |->
    /\ Filtered[k].rows # <<>>
    /\ Range(Filtered[k].columns) = Range(columns)
    /\ is_unique(Filtered[k].rows, "StudentID")
    /\ \A i \in DOMAIN Filtered[k].rows : RowInDomain(Filtered[k].rows[i])]

Rows(k) == Range(Filtered[k].rows)

\* Two well-formed sources of the last load hold rows of one StudentID
\* that differ elsewhere.
Conflict ==
    \E i, j \in DOMAIN read :
        /\ i # j /\ WellFormed[read[i]] /\ WellFormed[read[j]]
        /\ \E r \in Rows(read[i]), q \in Rows(read[j]) :
               r["StudentID"] = q["StudentID"] /\ r # q

Loaded_ok == called = "load_data" /\ raised = "None"

Processed_ok == called = "process_kpi_data" /\ raised = "None"

\* The correlation process_kpi_data computes for feature c of self.data.
FeatureCorr(c) == corr(Column(data, "FinalGrade"), Encode(data, c))

\* ----------------------------------------------------------------- claims

\* C1: a source that lacks an expected column is rejected by validate_data
\* with its per-source error (an AssertionError), load_data skips it and
\* goes on to merge the remaining sources.
C1_MissingColumnSkipped ==
    called = "load_data" =>
        \A i \in DOMAIN read :
            LacksColumn[read[i]] =>
                /\ Validated[read[i]].exc = "AssertionError"
                /\ (\E j \in DOMAIN read : WellFormed[read[j]])
                       => raised \in {"None", "StudentID must be unique."}

\* C2: when load_data produces a Dataset, a source with a row outside its
\* domain contributes no row to it (a row of it that is there is also a row
\* of a well-formed source), and every row of every well-formed source is
\* in it.
C2_RejectedWholesale ==
    Loaded_ok =>
        \A i \in DOMAIN read :
            /\ OutOfDomain[read[i]] =>
                   \A r \in Rows(read[i]) :
                       r \in Range(data.rows) =>
                           \E j \in DOMAIN read :
                               WellFormed[read[j]] /\ r \in Rows(read[j])
            /\ WellFormed[read[i]] =>
                   \A r \in Rows(read[i]) : r \in Range(data.rows)

\* C2 witness: a Dataset was produced from a well-formed source and a
\* source that has a row outside its domain next to rows inside it.
C2_Witness ==
    /\ Loaded_ok
    /\ \E i, j \in DOMAIN read :
           /\ OutOfDomain[read[i]] /\ WellFormed[read[j]]
           /\ \E r \in Rows(read[i]) : RowInDomain(r) /\ r \notin Range(data.rows)

\* C3: when load_data completes without error, StudentID is unique in the
\* Dataset, no two of its rows are identical, and a record that two
\* well-formed sources supply identically is in it exactly once.
C3_UniqueAfterLoad ==
    Loaded_ok =>
        /\ is_unique(data.rows, "StudentID")
        /\ \A i, j \in DOMAIN data.rows : data.rows[i] = data.rows[j] => i = j
        /\ \A a, b \in DOMAIN read :
               (a # b /\ WellFormed[read[a]] /\ WellFormed[read[b]]) =>
                   \A r \in Rows(read[a]) \cap Rows(read[b]) :
                       Cardinality({i \in DOMAIN data.rows : data.rows[i] = r}) = 1

\* C3 witness: load_data completed on two well-formed sources that share an
\* identical record.
C3_Witness ==
    /\ Loaded_ok
    /\ \E a, b \in DOMAIN read :
           /\ a # b /\ WellFormed[read[a]] /\ WellFormed[read[b]]
           /\ Rows(read[a]) \cap Rows(read[b]) # {}

\* C4: when no source of a load meets the schema (or there is no source),
\* load_data fails with the no-valid-data error.
C4_NoValidDataError ==
    (called = "load_data" /\ \A i \in DOMAIN read : ~WellFormed[read[i]])
        => raised = "No valid data found"

\* C5: when two accepted sources hold rows of one StudentID that differ
\* elsewhere, load_data aborts with the identity-conflict error.
C5_IdentityConflict ==
    (called = "load_data" /\ Conflict) => raised = "StudentID must be unique."

\* C6: after process_kpi_data every feature left in kpi_columns has an
\* encoded column in kpi_data, and that column does not correlate
\* positively with FinalGrade.
C6_SignAligned ==
    Processed_ok =>
        \A c \in Range(kpi_columns) :
            /\ c \in DOMAIN kpi_data.vals
            /\ ~Positive(corr(Column(data, "FinalGrade"), kpi_data.vals[c]))

\* C7: after process_kpi_data on features whose correlations are all
\* defined, kpi_columns is the sub-list of the features it started with
\* whose correlation is not zero, and kpi_data has exactly those columns.
C7_EffectiveList ==
    (Processed_ok /\ \A c \in Range(started) : ~FeatureCorr(c).nan) =>
        /\ kpi_columns = SelectSeq(started, LAMBDA c : ~IsZero(FeatureCorr(c)))
        /\ kpi_data.columns = kpi_columns

\* C8: after process_kpi_data a feature without variance over the Dataset
\* is neither in kpi_columns nor a column of kpi_data.
C8_ZeroVarianceDropped ==
    Processed_ok =>
        \A c \in Range(started) :
            Cov(Encode(data, c), Encode(data, c)) = 0 =>
                c \notin Range(kpi_columns) /\ c \notin Range(kpi_data.columns)

\* C9: when generate_kpi completes, every record has an ImprovabilityScore
\* >= 0 and some record has the score 0.
C9_MinScoreZero ==
    (called = "generate_kpi" /\ raised = "None") =>
        /\ \A i \in DOMAIN data.rows : data.rows[i]["ImprovabilityScore"] >= 0
        /\ \E i \in DOMAIN data.rows : data.rows[i]["ImprovabilityScore"] = 0

\* C9 witness: generate_kpi completed with scores that are not all equal,
\* from a projection whose minimum was not 0.
C9_Witness ==
    /\ called = "generate_kpi" /\ raised = "None"
    /\ \E i \in DOMAIN data.rows : data.rows[i]["ImprovabilityScore"] > 0
    /\ \E w \in [Range(kpi_data.columns) -> {-1, 1}] :
           /\ Min(Range(Project(kpi_data, w))) # 0
           /\ Column(data, "ImprovabilityScore") = Shift(Project(kpi_data, w))

\* C10: kpi_columns holds at least one feature in every reachable state.
C10_KpiNonEmpty == Len(kpi_columns) > 0

====
